---- MODULE Spec2Model ----
(***************************************************************************)
(* hawkbit DDI client: the confirmation gate (ddi/confirmation_base.rs)    *)
(* and the poll cycle (ddi/client.rs), together with the server and the    *)
(* HTTP transport they talk to.                                            *)
(*                                                                         *)
(* Text is modelled as a sequence of tokens: the punctuation of a URL      *)
(* (":", "/", "?", "#") and opaque name tokens ("https", "h", "c", ...).   *)
(* A URL text is parsed into its components and serialised back the way    *)
(* the url crate does it, so that the feedback URL the client POSTs to is  *)
(* computed, not assumed.                                                  *)
(***************************************************************************)
EXTENDS Integers, Sequences, FiniteSets, TLC

(***************************************************************************)
(* Bounds of the model.                                                    *)
(***************************************************************************)
\* ConfirmationRequest values the caller builds in one run.
MaxInst == 2
\* update_info / metadata calls made in one run.
MaxFetch == 2
\* Path segments written in a confirmation link the server hands out.
MaxSegs == 2

(***************************************************************************)
(* State.                                                                  *)
(***************************************************************************)
VARIABLES
    client,      \* the Client the caller built
    srvUrl,      \* the confirmation link the server hands out
    srvAction,   \* "confirm": waiting for confirmation; "deploy": released
    srvData,     \* the version of the update the server holds now
    pollReply,   \* the PollReply of the caller's last successful poll
    inst,        \* the ConfirmationRequest values: absent, live or consumed
    posts,       \* per ConfirmationRequest: feedback POSTs it has issued
    fetches,     \* per ConfirmationRequest: update_info / metadata calls
    gets,        \* per ConfirmationRequest: GETs it has issued
    confirmed,   \* a confirm() has returned Ok
    last,        \* the caller's last call: operation, exchange and result
    peer         \* a second, independent Client and what its caller holds

vars == <<client, srvUrl, srvAction, srvData, pollReply, inst, posts, fetches,
          gets, confirmed, last, peer>>

(***************************************************************************)
(* URL texts and the url crate.                                            *)
(***************************************************************************)
\* Schemes the parser treats as "special" (authority-based, never opaque).
SpecialSchemes == {"https", "http"}

\* Name tokens that can stand as a scheme (ASCII alphabetic first character).
AlphaTokens == {"https", "http", "mailto", "h", "c"}

\* The first index >= i of s holding a token of D, or Len(s)+1.
RECURSIVE FindFrom(_, _, _)
FindFrom(s, i, D) ==
    IF i > Len(s) THEN Len(s) + 1
    ELSE IF s[i] \in D THEN i
    ELSE FindFrom(s, i + 1, D)

\* s without its leading "/" tokens.
RECURSIVE SkipSlashes(_)
SkipSlashes(s) ==
    IF s # <<>> /\ Head(s) = "/" THEN SkipSlashes(Tail(s)) ELSE s

\* The segments written in a path text: one per "/", empty when the "/" is
\* followed by another "/" or by the end of the path.
RECURSIVE RawSegs(_)
RawSegs(p) ==
    IF p = <<>> THEN <<>>
    ELSE IF Head(p) # "/" THEN RawSegs(Tail(p))
    ELSE IF Len(p) >= 2 /\ p[2] # "/"
         THEN <<p[2]>> \o RawSegs(SubSeq(p, 3, Len(p)))
         ELSE <<"">> \o RawSegs(Tail(p))

\* The parser's path state: "." and ".." are resolved while parsing, and a
\* dot segment in last position leaves an empty last segment.
RECURSIVE NormSegs(_, _)
NormSegs(raw, acc) ==
    IF raw = <<>> THEN acc
    ELSE LET seg  == Head(raw)
             final == Len(raw) = 1
             popd == IF acc = <<>> THEN acc ELSE SubSeq(acc, 1, Len(acc) - 1)
         IN  IF seg = ".."
             THEN NormSegs(Tail(raw), IF final THEN popd \o <<"">> ELSE popd)
             ELSE IF seg = "."
             THEN NormSegs(Tail(raw), IF final THEN acc \o <<"">> ELSE acc)
             ELSE NormSegs(Tail(raw), acc \o <<seg>>)

UrlError(e) == [ok |-> FALSE, err |-> e]

\* str::parse::<Url>(): the text has to be an absolute URL.  An optional
\* component is <<>> when absent and <<v>> when present.
ParseUrl(text) ==
    IF ~(Len(text) >= 2 /\ text[1] \in AlphaTokens /\ text[2] = ":")
    THEN UrlError("RelativeUrlWithoutBase")
    ELSE
    LET scheme == text[1]
        rest   == SubSeq(text, 3, Len(text))
        fragAt == FindFrom(rest, 1, {"#"})
        noFrag == SubSeq(rest, 1, fragAt - 1)
        frag   == IF fragAt > Len(rest) THEN <<>>
                  ELSE <<SubSeq(rest, fragAt + 1, Len(rest))>>
        qAt    == FindFrom(noFrag, 1, {"?"})
        hier   == SubSeq(noFrag, 1, qAt - 1)
        query  == IF qAt > Len(noFrag) THEN <<>>
                  ELSE <<SubSeq(noFrag, qAt + 1, Len(noFrag))>>
    IN  IF scheme \in SpecialSchemes
        THEN LET auth   == SkipSlashes(hier)
                 pathAt == FindFrom(auth, 1, {"/"})
                 host   == SubSeq(auth, 1, pathAt - 1)
                 segs   == NormSegs(RawSegs(SubSeq(auth, pathAt, Len(auth))), <<>>)
             IN  IF host = <<>> THEN UrlError("EmptyHost")
                 ELSE [ok |-> TRUE, scheme |-> scheme, host |-> host,
                       cannot_be_a_base |-> FALSE,
                       segs |-> IF segs = <<>> THEN <<"">> ELSE segs,
                       query |-> query, fragment |-> frag]
        ELSE \* a scheme without authority: the rest is an opaque path
             [ok |-> TRUE, scheme |-> scheme, host |-> <<>>,
              cannot_be_a_base |-> TRUE, segs |-> hier,
              query |-> query, fragment |-> frag]

\* The text of a path: "/" before every segment.
RECURSIVE PathText(_)
PathText(segs) ==
    IF segs = <<>> THEN <<>>
    ELSE (IF Head(segs) = "" THEN <<"/">> ELSE <<"/", Head(segs)>>)
         \o PathText(Tail(segs))

\* Url::to_string()
UrlToString(u) ==
    <<u.scheme, ":">>
    \o (IF u.cannot_be_a_base THEN u.segs ELSE <<"/", "/">> \o u.host \o PathText(u.segs))
    \o (IF u.query = <<>> THEN <<>> ELSE <<"?">> \o u.query[1])
    \o (IF u.fragment = <<>> THEN <<>> ELSE <<"#">> \o u.fragment[1])

\* Url::path_segments_mut(): refused for a URL that cannot be a base.
PathSegmentsMut(u) == ~u.cannot_be_a_base

\* A push that behaves like Url::join: the last segment is replaced.
PushSegmentJoin(u, seg) ==
    [u EXCEPT !.segs = SubSeq(u.segs, 1, Len(u.segs) - 1) \o <<seg>>]

\* A push that appends to every path, the path "/" included.
PushSegmentAlways(u, seg) == [u EXCEPT !.segs = u.segs \o <<seg>>]

\* PathSegmentsMut::push(): a "/" and the segment are appended to the path;
\* a path that is only "/" gets the segment without a second "/".
PushSegment(u, seg) ==
    [u EXCEPT !.segs = IF u.segs = <<"">> THEN <<seg>> ELSE u.segs \o <<seg>>]

\* Url::set_query(None)
SetQueryNone(u) == [u EXCEPT !.query = <<>>]


(***************************************************************************)
(* The HTTP transport (reqwest) and the wire format (serde).               *)
(***************************************************************************)
\* Final status codes a response can carry: one success, one redirection
\* class status that is not followed (Multiple Choices) and one error status.
StatusCodes == {200, 300, 404}

NoBody == [empty |-> TRUE]

\* No response: the request was not delivered (connection failure, timeout).
NetErr == [delivered |-> FALSE, status |-> 0, body |-> NoBody]

\* What the transport can hand back for one request whose useful body is b.
Responses(bodies) ==
    {NetErr} \cup {[delivered |-> TRUE, status |-> s, body |-> b] :
                      s \in StatusCodes, b \in bodies}

Ok == [tag |-> "Ok", detail |-> ""]
Err(tag, detail) == [tag |-> tag, detail |-> detail]

NoValue == [kind |-> "none"]

\* Response::error_for_status_ref(): an error for a client or server error
\* status, the response itself for every other status.
ErrorForStatusRef(resp) == resp.status >= 400 /\ resp.status <= 599

\* RequestBuilder::json(): a request with a JSON body says so in a header of
\* its own; the default headers of the transport are added to every request.
RequestHeaders(body) ==
    IF body = NoBody THEN <<>>
    ELSE <<[name |-> "content-type", value |-> <<"application/json">>]>>

\* RequestBuilder::send(): the URL text is converted to a Url with a host
\* first; a text that is none fails the build and nothing is sent.
SendRequest(transport, method, urlText, body) ==
    LET u == ParseUrl(urlText)
    IN  IF u.ok /\ ~u.cannot_be_a_base /\ u.host # <<>>
        THEN <<[method |-> method, url |-> UrlToString(u),
                headers |-> RequestHeaders(body) \o transport.headers,
                body |-> body]>>
        ELSE <<>>

\* A serialisation without rename_all: the name of the variant as declared.
SerializeVariantName(variant) == variant

\* #[serde(rename_all = "lowercase")] on ConfirmationResponse.
SerializeConfirmationResponse(variant) ==
    CASE variant = "Confirmed" -> "confirmed"
      [] variant = "Denied"    -> "denied"

\* #[derive(Deserialize)] with rename_all = "lowercase": the two lowercase
\* names are the only texts that are accepted.
DeserializeConfirmationResponse(text) ==
    CASE text = "confirmed" -> [ok |-> TRUE, variant |-> "Confirmed"]
      [] text = "denied"    -> [ok |-> TRUE, variant |-> "Denied"]
      [] OTHER              -> [ok |-> FALSE, variant |-> ""]

\* #[derive(Serialize)] on Confirmation.
SerializeConfirmation(c) ==
    [confirmation |-> SerializeConfirmationResponse(c.confirmation),
     code |-> c.code, details |-> c.details]

\* Confirmation::new
ConfirmationNew(confirmation, code) ==
    [confirmation |-> confirmation, code |-> code, details |-> <<>>]

\* #[derive(Deserialize)] on Reply {id, confirmation: Deployment}: both
\* fields are required, unknown fields are ignored.
ParseReply(body) ==
    IF {"id", "confirmation"} \subseteq DOMAIN body
       /\ "chunks" \in DOMAIN body.confirmation
    THEN [ok |-> TRUE,
          reply |-> [id |-> body.id,
                     confirmation |-> [chunks |-> body.confirmation.chunks]]]
    ELSE [ok |-> FALSE]

\* Chunk::new and Chunk::metadata (ddi/deployment_base.rs): the chunk's
\* key/value pairs in declaration order.
ChunkNew(c, transport) == [chunk |-> c, client |-> transport]
ChunkMetadata(c) ==
    [k \in 1..Len(c.chunk.metadata) |->
        <<c.chunk.metadata[k].key, c.chunk.metadata[k].value>>]

(***************************************************************************)
(* ConfirmationRequest and ConfirmationInfo.                               *)
(***************************************************************************)
\* ConfirmationRequest::new
ConfirmationRequestNew(transport, url) ==
    [state |-> "live", client |-> transport, url |-> url, details |-> <<>>]

\* The slot of a ConfirmationRequest that has not been built.
Absent == [state |-> "absent", client |-> [headers |-> <<>>], url |-> <<>>,
           details |-> <<>>]

\* A derivation that unwraps path_segments_mut() instead of mapping its error.
ConfirmFeedbackUrlUnwrap(text) ==
    LET url == ParseUrl(text)
    IN  IF ~url.ok THEN [ok |-> FALSE, error |-> Err("ParseUrlError", url.err)]
        ELSE IF ~PathSegmentsMut(url)
        THEN [ok |-> FALSE, error |-> Err("Panic", "called unwrap on an Err value")]
        ELSE [ok |-> TRUE,
              url |-> UrlToString(SetQueryNone(PushSegment(url, "feedback")))]

\* confirm(), "get feedback url": parse, push "feedback", drop the query.
ConfirmFeedbackUrl(text) ==
    LET url == ParseUrl(text)
    IN  IF ~url.ok THEN [ok |-> FALSE, error |-> Err("ParseUrlError", url.err)]
        ELSE IF ~PathSegmentsMut(url)
        THEN [ok |-> FALSE,
              error |-> Err("ParseUrlError", "SetHostOnCannotBeABaseUrl")]
        ELSE [ok |-> TRUE,
              url |-> UrlToString(SetQueryNone(PushSegment(url, "feedback")))]

\* A derivation that misses set_query(None).
DeclineFeedbackUrlKeepQuery(text) ==
    LET url == ParseUrl(text)
    IN  IF ~url.ok THEN [ok |-> FALSE, error |-> Err("ParseUrlError", url.err)]
        ELSE IF ~PathSegmentsMut(url)
        THEN [ok |-> FALSE,
              error |-> Err("ParseUrlError", "SetHostOnCannotBeABaseUrl")]
        ELSE [ok |-> TRUE, url |-> UrlToString(PushSegment(url, "feedback"))]

\* decline(), "get feedback url": parse, push "feedback", drop the query.
DeclineFeedbackUrl(text) ==
    LET url == ParseUrl(text)
    IN  IF ~url.ok THEN [ok |-> FALSE, error |-> Err("ParseUrlError", url.err)]
        ELSE IF ~PathSegmentsMut(url)
        THEN [ok |-> FALSE,
              error |-> Err("ParseUrlError", "SetHostOnCannotBeABaseUrl")]
        ELSE [ok |-> TRUE,
              url |-> UrlToString(SetQueryNone(PushSegment(url, "feedback")))]

\* A feedback that is sent a second time when the first attempt fails.
PostFeedbackRetry(self, feedback, confirmation, resp) ==
    IF ~feedback.ok
    THEN [reqs |-> <<>>, resp |-> NetErr, result |-> feedback.error,
          value |-> NoValue]
    ELSE LET reqs == SendRequest(self.client, "POST", feedback.url,
                                 SerializeConfirmation(confirmation))
         IN  IF reqs = <<>>
             THEN [reqs |-> reqs, resp |-> NetErr,
                   result |-> Err("ReqwestError", "builder"), value |-> NoValue]
             ELSE IF ~resp.delivered
             THEN [reqs |-> reqs \o reqs, resp |-> resp,
                   result |-> Err("ReqwestError", "send"), value |-> NoValue]
             ELSE IF ErrorForStatusRef(resp)
             THEN [reqs |-> reqs \o reqs, resp |-> resp,
                   result |-> Err("ReqwestError", "status"), value |-> NoValue]
             ELSE [reqs |-> reqs, resp |-> resp, result |-> Ok,
                   value |-> [kind |-> "unit"]]

\* post(url).json(&confirmation).send().await?; error_for_status_ref()?; Ok(())
\* The exchange of one call: the requests it issued, the response it got
\* (NetErr when it issued none) and what it returned.
PostFeedback(self, feedback, confirmation, resp) ==
    IF ~feedback.ok
    THEN [reqs |-> <<>>, resp |-> NetErr, result |-> feedback.error,
          value |-> NoValue]
    ELSE LET reqs == SendRequest(self.client, "POST", feedback.url,
                                 SerializeConfirmation(confirmation))
         IN  IF reqs = <<>>
             THEN [reqs |-> reqs, resp |-> NetErr,
                   result |-> Err("ReqwestError", "builder"), value |-> NoValue]
             ELSE IF ~resp.delivered
             THEN [reqs |-> reqs, resp |-> resp,
                   result |-> Err("ReqwestError", "send"), value |-> NoValue]
             ELSE IF ErrorForStatusRef(resp)
             THEN [reqs |-> reqs, resp |-> resp,
                   result |-> Err("ReqwestError", "status"), value |-> NoValue]
             ELSE [reqs |-> reqs, resp |-> resp, result |-> Ok,
                   value |-> [kind |-> "unit"]]

\* ConfirmationRequest::confirm
ConfirmExchange(self, resp) ==
    PostFeedback(self, ConfirmFeedbackUrl(self.url),
                 ConfirmationNew("Confirmed", 1), resp)

\* A decline that posts the body of confirm.
DeclineExchangeConfirmed(self, resp) ==
    PostFeedback(self, DeclineFeedbackUrl(self.url),
                 ConfirmationNew("Confirmed", 1), resp)

\* ConfirmationRequest::decline
DeclineExchange(self, resp) ==
    PostFeedback(self, DeclineFeedbackUrl(self.url),
                 ConfirmationNew("Denied", -1), resp)

\* The exchange of update_info
UpdateInfoFetch(self, resp) ==
    LET reqs == SendRequest(self.client, "GET", self.url, NoBody)
    IN  IF reqs = <<>>
        THEN [reqs |-> reqs, resp |-> NetErr,
              result |-> Err("ReqwestError", "builder"), value |-> NoValue]
        ELSE IF ~resp.delivered
        THEN [reqs |-> reqs, resp |-> resp,
              result |-> Err("ReqwestError", "send"), value |-> NoValue]
        ELSE IF ErrorForStatusRef(resp)
        THEN [reqs |-> reqs, resp |-> resp,
              result |-> Err("ReqwestError", "status"), value |-> NoValue]
        ELSE IF ~ParseReply(resp.body).ok
        THEN [reqs |-> reqs, resp |-> resp,
              result |-> Err("ReqwestError", "decode"), value |-> NoValue]
        ELSE [reqs |-> reqs, resp |-> resp, result |-> Ok,
              value |-> [kind |-> "info", reply |-> ParseReply(resp.body).reply,
                         client |-> self.client]]

\* An update_info that hands back the reply it fetched last, without a
\* request.
UpdateInfoCached(self, resp) ==
    IF last.op = "update_info" /\ last.result = Ok
    THEN [reqs |-> <<>>, resp |-> last.resp, result |-> Ok, value |-> last.value]
    ELSE UpdateInfoFetch(self, resp)

\* ConfirmationRequest::update_info
UpdateInfoExchange(self, resp) == UpdateInfoFetch(self, resp)

\* A flattening that starts with the last chunk.
RECURSIVE FlatMetadataReversed(_)
FlatMetadataReversed(chunks) ==
    IF chunks = <<>> THEN <<>>
    ELSE FlatMetadataReversed(Tail(chunks)) \o ChunkMetadata(Head(chunks))

\* iter().flat_map(|c| c.metadata()) over a list of chunks.
RECURSIVE FlatMetadata(_)
FlatMetadata(chunks) ==
    IF chunks = <<>> THEN <<>>
    ELSE ChunkMetadata(Head(chunks)) \o FlatMetadata(Tail(chunks))

\* ConfirmationInfo::metadata
ConfirmationInfoMetadata(info) ==
    LET chunks == [k \in 1..Len(info.reply.confirmation.chunks) |->
                      ChunkNew(info.reply.confirmation.chunks[k], info.client)]
    IN  FlatMetadata(chunks)

\* A metadata() that reads the first chunk only.
MetadataFirstChunk(self, resp) ==
    LET x == UpdateInfoExchange(self, resp)
    IN  IF x.result # Ok THEN x
        ELSE LET update == x.value.reply
                 chunks == [k \in 1..Len(update.confirmation.chunks) |->
                               ChunkNew(update.confirmation.chunks[k], self.client)]
             IN  [x EXCEPT !.value = [kind |-> "metadata",
                                      list |-> FlatMetadata(SubSeq(chunks, 1, 1))]]

\* ConfirmationRequest::metadata
MetadataExchange(self, resp) ==
    LET x == UpdateInfoExchange(self, resp)
    IN  IF x.result # Ok THEN x
        ELSE LET update == x.value.reply
                 chunks == [k \in 1..Len(update.confirmation.chunks) |->
                               ChunkNew(update.confirmation.chunks[k], self.client)]
             IN  [x EXCEPT !.value = [kind |-> "metadata",
                                      list |-> FlatMetadata(chunks)]]


(***************************************************************************)
(* The server: one action that waits for confirmation, then is deployed.   *)
(***************************************************************************)
https(rest) == <<"https", ":", "/", "/">> \o rest

\* The confirmation link of the documented example, https://h/c/5?x=1.
ExampleUrl == https(<<"h", "/", "c", "/", "5", "?", "x=1">>)

\* Links a well-behaved server hands out in a poll reply.
ProtoUrls == {ExampleUrl}

DeployUrl == https(<<"h", "/", "d", "/", "5">>)

\* The confirmation link the server hands out to the second controller.
PeerUrl == https(<<"h", "/", "c", "/", "7">>)

\* Every sequence over S of length at most n.
RECURSIVE SeqsUpTo(_, _)
SeqsUpTo(S, n) ==
    IF n = 0 THEN {<<>>}
    ELSE LET shorter == SeqsUpTo(S, n - 1)
         IN  shorter \cup {<<x>> \o t : x \in S, t \in {u \in shorter : Len(u) = n - 1}}

\* Link texts of any shape: with or without scheme and host, with up to
\* MaxSegs written segments (empty and ".." included), with or without query.
UrlTexts ==
    ProtoUrls \cup
    {pre \o PathText(p) \o q :
        pre \in {https(<<"h">>), https(<<>>), <<"mailto", ":", "x">>, <<"h">>},
        p \in SeqsUpTo({"c", "..", ""}, MaxSegs),
        q \in {<<>>, <<"?", "x=1">>}}

\* The update the server holds for the action, in two versions.
Payloads ==
    << [id |-> "5",
        chunks |-> << [part |-> "os", metadata |-> << [key |-> "k1", value |-> "v1"],
                                                       [key |-> "k2", value |-> "v2"] >>],
                      [part |-> "app", metadata |-> << [key |-> "k3", value |-> "v3"] >>] >>],
       [id |-> "5",
        chunks |-> << [part |-> "os", metadata |-> << >>],
                      [part |-> "app", metadata |-> << [key |-> "k3", value |-> "v4"],
                                                        [key |-> "k1", value |-> "v1"] >>] >>] >>

\* GET <confirmation link>: {id, confirmation: {chunks}}
ConfirmationBody(v) ==
    [id |-> Payloads[v].id, confirmation |-> [chunks |-> Payloads[v].chunks]]

\* A body of another shape: {id, deployment: {chunks}}
DeploymentBody(v) ==
    [id |-> Payloads[v].id, deployment |-> [chunks |-> Payloads[v].chunks]]

\* GET <base url>: the poll envelope, with the link of the pending action.
PollEnvelope(action, link) ==
    [config |-> [polling |-> [sleep |-> "00:00:30"]],
     links  |-> IF action = "confirm"
                THEN [confirmationBase |-> [href |-> link]]
                ELSE [deploymentBase |-> [href |-> DeployUrl]]]

\* POST <confirmation link>/feedback: the gate is resolved by a feedback the
\* server acknowledges with 200 and that says "confirmed"; any other
\* feedback leaves the action as it is.
ServerOnFeedback(action, x) ==
    IF /\ x.reqs # <<>>
       /\ x.resp.delivered
       /\ x.resp.status = 200
       /\ x.reqs[1].method = "POST"
       /\ x.reqs[1].body.confirmation = "confirmed"
    THEN "deploy"
    ELSE action

(***************************************************************************)
(* Client and PollReply.                                                   *)
(***************************************************************************)
\* Url::join(input) for an input that is a path (no scheme, no authority):
\* a cannot-be-a-base URL takes no relative reference; a path that starts
\* with "/" replaces the path of the base; any other path replaces the last
\* segment of the base path.  The result is parsed, so dot segments are
\* resolved.
Join(base, input) ==
    IF base.cannot_be_a_base THEN UrlError("RelativeUrlWithCannotBeABaseBase")
    ELSE LET origin == <<base.scheme, ":", "/", "/">> \o base.host
             dir    == SubSeq(base.segs, 1, Len(base.segs) - 1)
         IN  IF input # <<>> /\ Head(input) = "/"
             THEN ParseUrl(origin \o input)
             ELSE ParseUrl(origin \o PathText(dir) \o <<"/">> \o input)

\* Characters a secret can hold, by what HeaderValue makes of them: visible
\* text, space and tab are legal; other control characters and DEL are not.
LegalChars == {"s", " ", "TAB"}
IllegalChars == {"LF", "DEL"}

\* A conversion that takes every text as a header value.
HeaderValueUnchecked(text) == [ok |-> TRUE, value |-> text]

\* HeaderValue::try_from(String)
HeaderValueTryFrom(text) ==
    IF \E k \in 1..Len(text) : text[k] \in IllegalChars
    THEN [ok |-> FALSE]
    ELSE [ok |-> TRUE, value |-> text]

\* HeaderMap::insert: the value replaces what the map held under the name.
HeaderMapInsert(headers, name, value) ==
    SelectSeq(headers, LAMBDA h : h.name # name)
    \o <<[name |-> name, value |-> value]>>

\* ClientAuthorization
AuthNone == [kind |-> "None", token |-> <<>>]
TargetToken(key_token) == [kind |-> "TargetToken", token |-> key_token]
GatewayToken(key_token) == [kind |-> "GatewayToken", token |-> key_token]

\* A match that builds the gateway header with the prefix of the target token.
AuthorizationValuePasted(authorization) ==
    CASE authorization.kind = "TargetToken" ->
            HeaderValueTryFrom(<<"TargetToken", " ">> \o authorization.token)
      [] authorization.kind = "GatewayToken" ->
            HeaderValueTryFrom(<<"TargetToken", " ">> \o authorization.token)
      [] authorization.kind = "None" -> [ok |-> TRUE, value |-> <<>>]

\* format!("TargetToken {}", key_token).try_into() and its gateway twin.
AuthorizationValue(authorization) ==
    CASE authorization.kind = "TargetToken" ->
            HeaderValueTryFrom(<<"TargetToken", " ">> \o authorization.token)
      [] authorization.kind = "GatewayToken" ->
            HeaderValueTryFrom(<<"GatewayToken", " ">> \o authorization.token)
      [] authorization.kind = "None" -> [ok |-> TRUE, value |-> <<>>]

\* The slot of a Client that has not been built.
NoClient == [base_url |-> UrlError("NoClient"), client |-> [headers |-> <<>>]]

\* Client::new.  built says whether reqwest's ClientBuilder::build() succeeds.
ClientNew(url, tenant, controller_id, authorization, built) ==
    LET host == ParseUrl(url)
        path == tenant \o <<"/", "controller", "/", "v1", "/">> \o controller_id
    IN  IF ~host.ok
        THEN [result |-> Err("ParseUrlError", host.err), value |-> NoClient]
        ELSE
        LET base_url == Join(host, path)
            value    == AuthorizationValue(authorization)
            headers  == IF authorization.kind = "None" THEN <<>>
                        ELSE HeaderMapInsert(<<>>, "authorization", value.value)
        IN  IF ~base_url.ok
            THEN [result |-> Err("ParseUrlError", base_url.err), value |-> NoClient]
            ELSE IF ~value.ok
            THEN [result |-> Err("InvalidToken", ""), value |-> NoClient]
            ELSE IF ~built
            THEN [result |-> Err("ReqwestError", "builder"), value |-> NoClient]
            ELSE [result |-> Ok,
                  value |-> [base_url |-> base_url, client |-> [headers |-> headers]]]

\* The client of controller c of tenant t at https://h, without authorization.
ClientValue == ClientNew(https(<<"h">>), <<"t">>, <<"c">>, AuthNone, TRUE).value

\* #[derive(Deserialize)] on poll::ReplyInternal (ddi/poll.rs).
ParsePollReply(body) ==
    IF {"config", "links"} \subseteq DOMAIN body
    THEN [ok |-> TRUE, reply |-> body]
    ELSE [ok |-> FALSE]

\* Client::poll
PollExchange(self, resp) ==
    LET reqs == SendRequest(self.client, "GET", UrlToString(self.base_url), NoBody)
    IN  IF reqs = <<>>
        THEN [reqs |-> reqs, resp |-> NetErr,
              result |-> Err("ReqwestError", "builder"), value |-> NoValue]
        ELSE IF ~resp.delivered
        THEN [reqs |-> reqs, resp |-> resp,
              result |-> Err("ReqwestError", "send"), value |-> NoValue]
        ELSE IF ErrorForStatusRef(resp)
        THEN [reqs |-> reqs, resp |-> resp,
              result |-> Err("ReqwestError", "status"), value |-> NoValue]
        ELSE IF ~ParsePollReply(resp.body).ok
        THEN [reqs |-> reqs, resp |-> resp,
              result |-> Err("ReqwestError", "decode"), value |-> NoValue]
        ELSE [reqs |-> reqs, resp |-> resp, result |-> Ok,
              value |-> [kind |-> "poll", reply |-> ParsePollReply(resp.body).reply,
                         client |-> self.client]]

\* poll::Reply::confirmation_base (ddi/poll.rs): present when the envelope
\* carries a confirmation link.
HasConfirmationBase(reply) ==
    reply.kind = "poll" /\ "confirmationBase" \in DOMAIN reply.reply.links

Insts == 1..MaxInst

NoCall == [op |-> "none", inst |-> 0, prior |-> 0, args |-> <<>>, reqs |-> <<>>,
           resp |-> NetErr, result |-> Ok, value |-> NoValue]

\* The record of a call: i is the ConfirmationRequest it was made on (0 for
\* the client), prior the feedback POSTs issued before it for the same link,
\* args the arguments of a call that takes some.
Call(op, i, prior, x) ==
    [op |-> op, inst |-> i, prior |-> prior, args |-> <<>>, reqs |-> x.reqs,
     resp |-> x.resp, result |-> x.result, value |-> x.value]

RECURSIVE SumUpTo(_, _)
SumUpTo(f, n) == IF n = 0 THEN 0 ELSE f[n] + SumUpTo(f, n - 1)

\* A second client and what its caller holds: the Client, the poll reply, one
\* ConfirmationRequest and the last call, with the state of the action the
\* server keeps for its controller.
PeerOf(c) ==
    [client |-> c, srvAction |-> "confirm", pollReply |-> NoValue,
     req |-> Absent, last |-> NoCall]

\* The slot of the second client, in a run that has none.
NoPeer == PeerOf(NoClient)

InitWith(links) ==
    /\ client = ClientValue
    /\ peer = NoPeer
    /\ srvUrl \in links
    /\ srvAction = "confirm"
    /\ srvData = 1
    /\ pollReply = NoValue
    /\ inst = [i \in Insts |-> Absent]
    /\ posts = [i \in Insts |-> 0]
    /\ fetches = [i \in Insts |-> 0]
    /\ gets = [i \in Insts |-> 0]
    /\ confirmed = FALSE
    /\ last = NoCall

Init == InitWith(ProtoUrls)

\* Host URL texts a caller may pass to Client::new: with or without scheme
\* and host, with up to MaxSegs written segments, with or without a last "/".
HostTexts ==
    {pre \o PathText(p) :
        pre \in {https(<<"h">>), https(<<>>), <<"mailto", ":", "x">>, <<"h">>},
        p \in SeqsUpTo({"c", ""}, MaxSegs)}

\* Tenants and controller ids: a name, the empty text, a dot segment.
Tenants == {<<"t">>, <<>>, <<"..">>}
ControllerIds == {<<"c">>, <<"d">>}

\* Secrets: legal ones (the empty one included) and ones with a character
\* that is illegal in a header value.
Secrets == {<<>>, <<"s">>, <<"s", " ", "TAB">>, <<"s", "LF">>, <<"DEL">>}

Authorizations ==
    {AuthNone} \cup {TargetToken(k) : k \in Secrets}
               \cup {GatewayToken(k) : k \in Secrets}

\* Two callers, each with a Client of its own: controller c and controller d
\* of the same tenant, each with or without a token.
InitTwo ==
    /\ client \in {ClientNew(https(<<"h">>), <<"t">>, <<"c">>, a, TRUE).value :
                       a \in {AuthNone, TargetToken(<<"s">>)}}
    /\ peer \in {PeerOf(ClientNew(https(<<"h">>), <<"t">>, <<"d">>, a, TRUE).value) :
                     a \in {AuthNone, GatewayToken(<<"s">>)}}
    /\ srvUrl \in ProtoUrls
    /\ srvAction = "confirm"
    /\ srvData = 1
    /\ pollReply = NoValue
    /\ inst = [i \in Insts |-> Absent]
    /\ posts = [i \in Insts |-> 0]
    /\ fetches = [i \in Insts |-> 0]
    /\ gets = [i \in Insts |-> 0]
    /\ confirmed = FALSE
    /\ last = NoCall

\* A caller that has not built its Client yet.
InitClient ==
    /\ client = NoClient
    /\ peer = NoPeer
    /\ srvUrl \in ProtoUrls
    /\ srvAction = "confirm"
    /\ srvData = 1
    /\ pollReply = NoValue
    /\ inst = [i \in Insts |-> Absent]
    /\ posts = [i \in Insts |-> 0]
    /\ fetches = [i \in Insts |-> 0]
    /\ gets = [i \in Insts |-> 0]
    /\ confirmed = FALSE
    /\ last = NoCall

InitUrl == InitWith(UrlTexts)

(***************************************************************************)
(* Operations.                                                             *)
(***************************************************************************)
\* The server replaces the update of the pending action.
ServerMutate ==
    /\ srvData' = (srvData % Len(Payloads)) + 1
    /\ UNCHANGED <<client, srvUrl, srvAction, pollReply, inst, posts, fetches,
                   gets, confirmed, last, peer>>

\* Client::new(url, tenant, controller_id, authorization), the first call of
\* a run: the caller keeps the Client when the call returns one.
New ==
    /\ client = NoClient
    /\ last = NoCall
    /\ \E url \in HostTexts, tenant \in Tenants, controller_id \in ControllerIds,
          authorization \in Authorizations, built \in BOOLEAN :
        \E x \in {ClientNew(url, tenant, controller_id, authorization, built)} :
            /\ client' = x.value
            /\ last' = [Call("new", 0, 0,
                              [reqs |-> <<>>, resp |-> NetErr, result |-> x.result,
                               value |-> x.value])
                        EXCEPT !.args = [url |-> url, tenant |-> tenant,
                                         controller_id |-> controller_id,
                                         authorization |-> authorization]]
    /\ UNCHANGED <<srvUrl, srvAction, srvData, pollReply, inst, posts, fetches,
                   gets, confirmed, peer>>

\* client.poll().await
Poll ==
    /\ client # NoClient
    /\ \E resp \in Responses({PollEnvelope(srvAction, srvUrl), [error |-> "unavailable"]}) :
        \E x \in {PollExchange(client, resp)} :
            /\ pollReply' = IF x.result = Ok THEN x.value ELSE pollReply
            /\ last' = Call("poll", 0, 0, x)
    /\ UNCHANGED <<client, srvUrl, srvAction, srvData, inst, posts,
                   fetches, gets, confirmed, peer>>

\* reply.confirmation_base(): the next ConfirmationRequest is built from the
\* link of the poll reply the caller holds.
ConfirmationBase(i) ==
    /\ HasConfirmationBase(pollReply)
    /\ inst[i].state = "absent"
    /\ \A j \in Insts : j < i => inst[j].state # "absent"
    /\ inst' = [inst EXCEPT ![i] =
           ConfirmationRequestNew(pollReply.client,
                                  pollReply.reply.links.confirmationBase.href)]
    /\ UNCHANGED <<client, srvUrl, srvAction, srvData, pollReply, posts, fetches,
                   gets, confirmed, last, peer>>

\* The caller still owns ConfirmationRequest i: it has been built and has
\* not been moved into a call.  Every method call on it needs that.
Owned(i) == inst[i].state = "live"

\* A confirm that hands the request back to the caller when it fails.
ConfirmKeepOnError(i) ==
    /\ Owned(i)
    /\ \E resp \in Responses({NoBody}) :
        \E x \in {ConfirmExchange(inst[i], resp)} :
            /\ inst' = IF x.result = Ok
                       THEN [inst EXCEPT ![i].state = "consumed"]
                       ELSE inst
            /\ posts' = [posts EXCEPT ![i] = @ + Len(x.reqs)]
            /\ srvAction' = ServerOnFeedback(srvAction, x)
            /\ confirmed' = (confirmed \/ x.result = Ok)
            /\ last' = Call("confirm", i, SumUpTo(posts, MaxInst), x)
    /\ UNCHANGED <<client, srvUrl, srvData, pollReply, fetches, gets, peer>>

\* request.confirm().await: self is moved into the call.
Confirm(i) ==
    /\ Owned(i)
    /\ \E resp \in Responses({NoBody}) :
        \E x \in {ConfirmExchange(inst[i], resp)} :
            /\ inst' = [inst EXCEPT ![i].state = "consumed"]
            /\ posts' = [posts EXCEPT ![i] = @ + Len(x.reqs)]
            /\ srvAction' = ServerOnFeedback(srvAction, x)
            /\ confirmed' = (confirmed \/ x.result = Ok)
            /\ last' = Call("confirm", i, SumUpTo(posts, MaxInst), x)
    /\ UNCHANGED <<client, srvUrl, srvData, pollReply, fetches, gets, peer>>

\* A decline(&self): the request stays usable after the call.
DeclineBorrowed(i) ==
    /\ Owned(i)
    /\ \E resp \in Responses({NoBody}) :
        \E x \in {DeclineExchange(inst[i], resp)} :
            /\ posts' = [posts EXCEPT ![i] = @ + Len(x.reqs)]
            /\ srvAction' = ServerOnFeedback(srvAction, x)
            /\ last' = Call("decline", i, SumUpTo(posts, MaxInst), x)
    /\ UNCHANGED <<client, srvUrl, srvData, pollReply, inst, fetches, gets,
                   confirmed, peer>>

\* A decline that keeps a record of decided links and refuses to send a
\* second feedback for a link that already got one.
DeclineOnce(i) ==
    /\ Owned(i)
    /\ \E resp \in Responses({NoBody}) :
        \E x \in {IF SumUpTo(posts, MaxInst) > 0
                  THEN [reqs |-> <<>>, resp |-> NetErr,
                        result |-> Err("AlreadyDecided", ""), value |-> NoValue]
                  ELSE DeclineExchange(inst[i], resp)} :
            /\ inst' = [inst EXCEPT ![i].state = "consumed"]
            /\ posts' = [posts EXCEPT ![i] = @ + Len(x.reqs)]
            /\ srvAction' = ServerOnFeedback(srvAction, x)
            /\ last' = Call("decline", i, SumUpTo(posts, MaxInst), x)
    /\ UNCHANGED <<client, srvUrl, srvData, pollReply, fetches, gets, confirmed, peer>>

\* request.decline().await: self is moved into the call.
Decline(i) ==
    /\ Owned(i)
    /\ \E resp \in Responses({NoBody}) :
        \E x \in {DeclineExchange(inst[i], resp)} :
            /\ inst' = [inst EXCEPT ![i].state = "consumed"]
            /\ posts' = [posts EXCEPT ![i] = @ + Len(x.reqs)]
            /\ srvAction' = ServerOnFeedback(srvAction, x)
            /\ last' = Call("decline", i, SumUpTo(posts, MaxInst), x)
    /\ UNCHANGED <<client, srvUrl, srvData, pollReply, fetches, gets, confirmed, peer>>

\* request.update_info().await: self is borrowed.
UpdateInfo(i) ==
    /\ Owned(i)
    /\ SumUpTo(fetches, MaxInst) < MaxFetch
    /\ \E resp \in Responses({ConfirmationBody(srvData), DeploymentBody(srvData)}) :
        \E x \in {UpdateInfoExchange(inst[i], resp)} :
            /\ fetches' = [fetches EXCEPT ![i] = @ + 1]
            /\ gets' = [gets EXCEPT ![i] = @ + Len(x.reqs)]
            /\ last' = Call("update_info", i, 0, x)
    /\ UNCHANGED <<client, srvUrl, srvAction, srvData, pollReply, inst, posts,
                   confirmed, peer>>

\* request.metadata().await: self is borrowed.
Metadata(i) ==
    /\ Owned(i)
    /\ SumUpTo(fetches, MaxInst) < MaxFetch
    /\ \E resp \in Responses({ConfirmationBody(srvData), DeploymentBody(srvData)}) :
        \E x \in {MetadataExchange(inst[i], resp)} :
            /\ fetches' = [fetches EXCEPT ![i] = @ + 1]
            /\ gets' = [gets EXCEPT ![i] = @ + Len(x.reqs)]
            /\ last' = Call("metadata", i, 0, x)
    /\ UNCHANGED <<client, srvUrl, srvAction, srvData, pollReply, inst, posts,
                   confirmed, peer>>

\* info.metadata() on the ConfirmationInfo the update_info just made returned.
InfoMetadata ==
    /\ last.op = "update_info"
    /\ last.result = Ok
    /\ last' = [Call("info_metadata", last.inst, 0,
                      [reqs |-> <<>>, resp |-> NetErr, result |-> Ok,
                       value |-> [kind |-> "metadata",
                                  list |-> ConfirmationInfoMetadata(last.value)]])
                EXCEPT !.args = [info |-> last.value]]
    /\ UNCHANGED <<client, srvUrl, srvAction, srvData, pollReply, inst, posts,
                   fetches, gets, confirmed, peer>>

\* The variables of the first caller and of the server side of its controller.
varsA == <<client, srvUrl, srvAction, srvData, pollReply, inst, posts, fetches,
           gets, confirmed, last>>

\* A poll of the second client that leaves its Client in a place shared by
\* all clients, where the first caller picks it up.
PeerPollShared ==
    /\ peer.client # NoClient
    /\ \E resp \in Responses({PollEnvelope(peer.srvAction, PeerUrl),
                               [error |-> "unavailable"]}) :
        \E x \in {PollExchange(peer.client, resp)} :
            peer' = [peer EXCEPT
                        !.pollReply = IF x.result = Ok THEN x.value ELSE @,
                        !.last = Call("poll", 0, 0, x)]
    /\ client' = peer.client
    /\ UNCHANGED <<srvUrl, srvAction, srvData, pollReply, inst, posts, fetches,
                   gets, confirmed, last>>

\* peer.poll().await on the second client.
PeerPoll ==
    /\ peer.client # NoClient
    /\ \E resp \in Responses({PollEnvelope(peer.srvAction, PeerUrl),
                               [error |-> "unavailable"]}) :
        \E x \in {PollExchange(peer.client, resp)} :
            peer' = [peer EXCEPT
                        !.pollReply = IF x.result = Ok THEN x.value ELSE @,
                        !.last = Call("poll", 0, 0, x)]
    /\ UNCHANGED varsA

\* reply.confirmation_base() on the poll reply of the second client.
PeerConfirmationBase ==
    /\ HasConfirmationBase(peer.pollReply)
    /\ peer.req.state = "absent"
    /\ peer' = [peer EXCEPT !.req =
           ConfirmationRequestNew(peer.pollReply.client,
                                  peer.pollReply.reply.links.confirmationBase.href)]
    /\ UNCHANGED varsA

\* request.confirm().await on the ConfirmationRequest of the second client.
PeerConfirm ==
    /\ peer.req.state = "live"
    /\ \E resp \in Responses({NoBody}) :
        \E x \in {ConfirmExchange(peer.req, resp)} :
            peer' = [peer EXCEPT
                        !.req.state = "consumed",
                        !.srvAction = ServerOnFeedback(@, x),
                        !.last = Call("confirm", 1, 0, x)]
    /\ UNCHANGED varsA

\* request.update_info().await on the ConfirmationRequest of the second client.
PeerUpdateInfo ==
    /\ peer.req.state = "live"
    /\ peer.last.op # "update_info"
    /\ \E resp \in Responses({ConfirmationBody(srvData), DeploymentBody(srvData)}) :
        \E x \in {UpdateInfoExchange(peer.req, resp)} :
            peer' = [peer EXCEPT !.last = Call("update_info", 1, 0, x)]
    /\ UNCHANGED varsA

Next ==
    \/ ServerMutate
    \/ Poll
    \/ \E i \in Insts : ConfirmationBase(i)
    \/ \E i \in Insts : Confirm(i)
    \/ \E i \in Insts : Decline(i)
    \/ \E i \in Insts : UpdateInfo(i)
    \/ \E i \in Insts : Metadata(i)
    \/ InfoMetadata

Spec == Init /\ [][Next]_vars

\* A caller that builds one ConfirmationRequest, from a link of any shape.
NextUrl ==
    \/ Poll
    \/ ConfirmationBase(1)
    \/ Confirm(1)
    \/ Decline(1)
    \/ UpdateInfo(1)
    \/ Metadata(1)

SpecUrl == InitUrl /\ [][NextUrl]_vars

\* A caller that builds its Client from arguments of any shape and then
\* drives one confirmation through it.
NextClient ==
    \/ New
    \/ Poll
    \/ ConfirmationBase(1)
    \/ Confirm(1)
    \/ Decline(1)
    \/ UpdateInfo(1)

SpecClient == InitClient /\ [][NextClient]_vars

\* Two callers, each driving its own Client, in any interleaving.
NextTwo ==
    \/ Poll
    \/ ConfirmationBase(1)
    \/ Confirm(1)
    \/ UpdateInfo(1)
    \/ PeerPoll
    \/ PeerConfirmationBase
    \/ PeerConfirm
    \/ PeerUpdateInfo

SpecTwo == InitTwo /\ [][NextTwo]_vars


(***************************************************************************)
(* Properties.                                                             *)
(***************************************************************************)
Decisions == {"confirm", "decline"}

\* The ConfirmationRequest the last call was made on.
Self == inst[last.inst]

FeedbackOfExample == https(<<"h", "/", "c", "/", "5", "/", "feedback">>)

ConfirmedBody == [confirmation |-> "confirmed", code |-> 1, details |-> <<>>]
DeniedBody == [confirmation |-> "denied", code |-> -1, details |-> <<>>]

\* C1: a ConfirmationRequest makes at most one decision: it issues at most
\* one feedback POST, and once confirm or decline has been invoked on it no
\* confirm, decline, update_info or metadata can be invoked on it any more.
C1_OneDecisionPerRequest ==
    \A i \in Insts :
        /\ posts[i] <= 1
        /\ inst[i].state = "consumed" =>
              /\ ~ENABLED Confirm(i)
              /\ ~ENABLED Decline(i)
              /\ ~ENABLED UpdateInfo(i)
              /\ ~ENABLED Metadata(i)

C1_Witness ==
    \E i \in Insts : inst[i].state = "consumed" /\ posts[i] = 1

\* C2 as stated: a confirm or decline on a link that already got a feedback
\* (through another ConfirmationRequest built for the same link) fails and
\* sends no second feedback POST.
C2_SecondDecisionFails ==
    (last.op \in Decisions /\ last.prior >= 1) =>
        (last.result # Ok /\ last.reqs = <<>>)

\* C2 amended: only the ConfirmationRequest itself is one-shot.  A confirm or
\* decline through another ConfirmationRequest built for the same link is
\* not refused: it sends its own feedback POST and fails only when that POST
\* is not delivered or is answered with a 4xx/5xx status.
C2_SecondRequestDecidesAgain ==
    /\ (last.op \in Decisions /\ last.prior >= 1) =>
          /\ Len(last.reqs) = 1
          /\ last.reqs[1].method = "POST"
          /\ last.reqs[1].url = FeedbackOfExample
          /\ last.result = Ok <=> (last.resp.delivered /\ last.resp.status < 400)
    /\ \A i \in Insts : inst[i].state = "consumed" =>
          (~ENABLED Confirm(i) /\ ~ENABLED Decline(i))

C2_Witness ==
    last.op \in Decisions /\ last.prior >= 1 /\ last.result = Ok

\* C3 as stated: confirm on a valid link sends exactly one POST to the
\* derived feedback URL with body {confirmed, 1, []}; it returns Ok exactly
\* when the request was delivered and answered with a 2xx status, and a
\* transport error otherwise.
C3_ConfirmContract ==
    last.op = "confirm" =>
        /\ Len(last.reqs) = 1
        /\ last.reqs[1].method = "POST"
        /\ last.reqs[1].url = FeedbackOfExample
        /\ last.reqs[1].body = ConfirmedBody
        /\ last.result = Ok <=>
              (last.resp.delivered /\ last.resp.status \in 200..299)
        /\ last.result # Ok => last.result.tag = "ReqwestError"


\* C4: decline has the mechanics of confirm.  For the same request and the
\* same response, confirm and decline issue the same number of requests, to
\* the same URL with the same method and headers, and return the same
\* result; only the posted body differs, {denied, -1, []} for decline.
C4_DeclineLikeConfirm ==
    /\ last.op = "decline" =>
          LET c == ConfirmExchange(Self, last.resp)
          IN  /\ Len(last.reqs) = Len(c.reqs)
              /\ last.result = c.result
              /\ \A k \in 1..Len(last.reqs) :
                    /\ last.reqs[k].method = c.reqs[k].method
                    /\ last.reqs[k].url = c.reqs[k].url
                    /\ last.reqs[k].headers = c.reqs[k].headers
                    /\ last.reqs[k].body = DeniedBody
                    /\ c.reqs[k].body = ConfirmedBody
    /\ last.op = "confirm" =>
          LET d == DeclineExchange(Self, last.resp)
          IN  /\ Len(last.reqs) = Len(d.reqs)
              /\ last.result = d.result
              /\ \A k \in 1..Len(last.reqs) :
                    /\ last.reqs[k].method = d.reqs[k].method
                    /\ last.reqs[k].url = d.reqs[k].url
                    /\ last.reqs[k].headers = d.reqs[k].headers
                    /\ last.reqs[k].body = ConfirmedBody
                    /\ d.reqs[k].body = DeniedBody

C4_Witness ==
    /\ last.op = "decline"
    /\ last.result = Ok
    /\ ParseUrl(Self.url).query # <<>>

\* The part of a URL text before its query and fragment ends with "/".
EndsWithSlash(text) ==
    LET stop == FindFrom(text, 1, {"?", "#"})
    IN  stop > 1 /\ text[stop - 1] = "/"

\* The segments a path is made of; the path "/" is made of none.
SegmentsOf(u) == IF u.segs = <<"">> THEN <<>> ELSE u.segs

\* C5: for a hierarchical confirmation URL that does not end with a slash,
\* with or without query, the URL confirm and decline POST to has the same
\* scheme, host and path segments, followed by the one segment "feedback",
\* and no query; https://h/c/5?x=1 gives https://h/c/5/feedback.
C5_FeedbackUrl ==
    (/\ last.op \in Decisions
     /\ ParseUrl(Self.url).ok
     /\ ~ParseUrl(Self.url).cannot_be_a_base
     /\ ~EndsWithSlash(Self.url)) =>
        /\ Len(last.reqs) = 1
        /\ LET u == ParseUrl(Self.url)
               f == ParseUrl(last.reqs[1].url)
           IN  /\ f.ok
               /\ f.scheme = u.scheme
               /\ f.host = u.host
               /\ f.segs = SegmentsOf(u) \o <<"feedback">>
               /\ f.query = <<>>
        /\ Self.url = ExampleUrl => last.reqs[1].url = FeedbackOfExample

C5_Witness ==
    /\ last.op = "confirm"
    /\ Self.url = ExampleUrl
    /\ last.reqs # <<>>
    /\ last.reqs[1].url = FeedbackOfExample

\* C6: when the stored confirmation URL cannot be parsed or cannot be a
\* base, confirm and decline return the URL error value (no panic) and no
\* request is sent.
C6_UrlErrorNoRequest ==
    (/\ last.op \in Decisions
     /\ (~ParseUrl(Self.url).ok \/ ParseUrl(Self.url).cannot_be_a_base)) =>
        /\ last.result.tag = "ParseUrlError"
        /\ last.reqs = <<>>
        /\ posts[last.inst] = 0
        /\ srvAction = "confirm"

C6_Witness ==
    /\ last.op = "confirm"
    /\ ParseUrl(Self.url).ok
    /\ ParseUrl(Self.url).cannot_be_a_base
    /\ last.result = Err("ParseUrlError", "SetHostOnCannotBeABaseUrl")

\* C7: update_info is non-consuming and never cached.  Every call issues one
\* GET of its own to the confirmation URL, so n calls issue n GETs; what it
\* returns is the reply carried by the response to that GET; and after the
\* call the ConfirmationRequest is as it was built, with confirm and decline
\* still available.
C7_UpdateInfoFresh ==
    /\ \A i \in Insts : gets[i] = fetches[i]
    /\ last.op = "update_info" =>
          /\ Len(last.reqs) = 1
          /\ last.reqs[1].method = "GET"
          /\ last.reqs[1].url = Self.url
          /\ last.result = Ok =>
                /\ last.value.reply.id = last.resp.body.id
                /\ last.value.reply.confirmation.chunks
                       = last.resp.body.confirmation.chunks
    /\ \A i \in Insts : (fetches[i] > 0 /\ posts[i] = 0 /\ last.inst = i
                         /\ last.op \in {"update_info", "metadata"}) =>
          /\ inst[i] = ConfirmationRequestNew(client.client, srvUrl)
          /\ Owned(i)

\* Two calls on one request, the second returning the update as the server
\* changed it after the request was built.
C7_Witness ==
    /\ last.op = "update_info"
    /\ last.result = Ok
    /\ fetches[last.inst] >= 2
    /\ gets[last.inst] >= 2
    /\ last.value.reply.confirmation.chunks = Payloads[2].chunks
    /\ Self.state = "live"

\* C8: ConfirmationRequest::metadata is update_info followed by
\* ConfirmationInfo::metadata: one GET of its own to the confirmation URL,
\* the list ConfirmationInfo::metadata gives for the fetched reply, and the
\* error of update_info when the fetch fails.
C8_MetadataIsUpdateInfoMetadata ==
    last.op = "metadata" =>
        LET u == UpdateInfoExchange(Self, last.resp)
        IN  /\ last.reqs = u.reqs
            /\ Len(last.reqs) = 1
            /\ last.reqs[1].method = "GET"
            /\ last.reqs[1].url = Self.url
            /\ last.result = u.result
            /\ u.result = Ok =>
                  /\ last.value.kind = "metadata"
                  /\ last.value.list = ConfirmationInfoMetadata(u.value)

C8_Witness ==
    /\ last.op = "metadata"
    /\ last.result = Ok
    /\ Len(last.value.list) = 3

\* C9 as stated: once a confirm has returned Ok, its feedback POST has gone
\* to the derived feedback URL, and every later successful poll surfaces the
\* deployment of the action instead of the confirmation.
C9_ConfirmThenDeployment ==
    /\ (last.op = "confirm" /\ last.result = Ok) =>
          (Len(last.reqs) = 1 /\ last.reqs[1].url = FeedbackOfExample
           /\ last.reqs[1].body = ConfirmedBody)
    /\ (confirmed /\ last.op = "poll" /\ last.result = Ok) =>
          /\ "deploymentBase" \in DOMAIN last.value.reply.links
          /\ "confirmationBase" \notin DOMAIN last.value.reply.links

\* C10: decline does not advance the protocol.  A decline step leaves the
\* server's pending action, the client and the poll reply the caller holds
\* as they were, and a successful poll offers the confirmation link again
\* for as long as the action waits for confirmation.
C10_DeclineKeepsGate ==
    /\ [][(\E i \in Insts : Decline(i)) =>
             /\ srvAction' = srvAction
             /\ srvData' = srvData
             /\ client' = client
             /\ pollReply' = pollReply]_vars
    /\ []((last.op = "poll" /\ last.result = Ok /\ last.resp.status = 200
           /\ srvAction = "confirm") =>
             /\ HasConfirmationBase(last.value)
             /\ last.value.reply.links.confirmationBase.href = srvUrl)

\* A second decline of the same action, acknowledged by the server, with the
\* action still waiting for confirmation.
C10_Witness ==
    /\ last.op = "decline"
    /\ last.prior >= 1
    /\ last.result = Ok
    /\ last.resp.status = 200
    /\ srvAction = "confirm"
    /\ \A i \in Insts : inst[i].state = "consumed"

\* The Authorization headers among a list of headers.
AuthorizationHeaders(headers) ==
    SelectSeq(headers, LAMBDA h : h.name = "authorization")

\* C11: the transport Client::new builds holds exactly one Authorization
\* header "TargetToken <secret>" for TargetToken, exactly one
\* "GatewayToken <secret>" for GatewayToken and none for None; the Client is
\* not changed once built, the poll reply and every ConfirmationRequest hold
\* its transport, and every request of poll, update_info, confirm and decline
\* carries the Authorization headers of that transport, no more and no less.
C11_AuthorizationHeader ==
    /\ []((last.op = "new" /\ last.result = Ok) =>
            LET a  == last.args.authorization
                hs == AuthorizationHeaders(client.client.headers)
            IN  /\ a.kind = "None" => hs = <<>>
                /\ a.kind # "None" =>
                      /\ Len(hs) = 1
                      /\ hs[1].value = <<a.kind, " ">> \o a.token
                /\ Len(client.client.headers) = Len(hs))
    /\ [][client # NoClient => client' = client]_vars
    /\ [](/\ pollReply # NoValue => pollReply.client = client.client
          /\ \A i \in Insts : inst[i].state # "absent" =>
                inst[i].client = client.client
          /\ \A k \in 1..Len(last.reqs) :
                AuthorizationHeaders(last.reqs[k].headers)
                    = AuthorizationHeaders(client.client.headers))

\* A feedback POST that carries the gateway token header next to the
\* content type header of its JSON body.
C11_Witness ==
    /\ last.op = "decline"
    /\ Len(last.reqs) = 1
    /\ Len(last.reqs[1].headers) = 2
    /\ AuthorizationHeaders(last.reqs[1].headers)
          = <<[name |-> "authorization",
               value |-> <<"GatewayToken", " ", "s", " ", "TAB">>]>>

\* C12 as stated: the base URL does not depend on a trailing slash of the
\* host URL.  For every absolute host URL written without a last "/" from
\* which Client::new builds a Client, the same call with the "/" added builds
\* a Client with the same base URL path.
C12_BaseUrlIgnoresTrailingSlash ==
    (/\ last.op = "new"
     /\ last.result = Ok
     /\ ~EndsWithSlash(last.args.url)) =>
        LET slashed == ClientNew(last.args.url \o <<"/">>, last.args.tenant,
                                 last.args.controller_id,
                                 last.args.authorization, TRUE)
        IN  /\ slashed.result = Ok
            /\ slashed.value.base_url.segs = last.value.base_url.segs

\* C13: Client::new returns the URL error when the url is not an absolute
\* URL or cannot be joined with the path (the URL is checked first), and the
\* invalid token error when the URL is good and the secret of a token holds a
\* character that is illegal in a header value; a call that fails builds no
\* Client, so nothing can be polled; with authorization None there is no
\* invalid token error.
C13_NewErrors ==
    /\ last.op = "new" =>
          LET a         == last.args
              host      == ParseUrl(a.url)
              badUrl    == ~host.ok \/ host.cannot_be_a_base
              badSecret == /\ a.authorization.kind # "None"
                           /\ \E k \in 1..Len(a.authorization.token) :
                                 a.authorization.token[k] \in IllegalChars
          IN  /\ badUrl => last.result.tag = "ParseUrlError"
              /\ (~badUrl /\ badSecret) => last.result.tag = "InvalidToken"
              /\ a.authorization.kind = "None" => last.result.tag # "InvalidToken"
              /\ last.result # Ok => (client = NoClient /\ last.value = NoClient)
              /\ last.result = Ok => (client = last.value /\ client.base_url.ok)
    /\ client = NoClient => ~ENABLED Poll

C13_Witness ==
    /\ last.op = "new"
    /\ last.result = Err("InvalidToken", "")
    /\ last.args.authorization = GatewayToken(<<"s", "LF">>)
    /\ client = NoClient

\* C14 as stated: poll issues one GET on the base URL and returns a PollReply
\* exactly when the response has a 2xx status and a valid envelope; no
\* response or a status outside 2xx gives a transport error, whatever the
\* body, and a 2xx response with an invalid envelope gives a body error.
C14_PollContract ==
    last.op = "poll" =>
        /\ Len(last.reqs) = 1
        /\ last.reqs[1].method = "GET"
        /\ last.reqs[1].url = UrlToString(client.base_url)
        /\ last.reqs[1].body = NoBody
        /\ last.result = Ok <=>
              /\ last.resp.delivered
              /\ last.resp.status \in 200..299
              /\ ParsePollReply(last.resp.body).ok
        /\ (~last.resp.delivered \/ last.resp.status \notin 200..299) =>
              last.result \in {Err("ReqwestError", "send"),
                               Err("ReqwestError", "status")}
        /\ (/\ last.resp.delivered
            /\ last.resp.status \in 200..299
            /\ ~ParsePollReply(last.resp.body).ok) =>
              last.result = Err("ReqwestError", "decode")
        /\ last.result = Ok =>
              (last.value.kind = "poll" /\ last.value.client = client.client)

\* C15: the decision on the wire.  The body confirm posts carries the
\* decision "confirmed" and the body decline posts carries "denied", and
\* reading either text back gives the decision it was written from.
C15_DecisionRoundTrip ==
    /\ (last.op = "confirm" /\ last.reqs # <<>>) =>
          /\ last.reqs[1].body.confirmation = "confirmed"
          /\ DeserializeConfirmationResponse(last.reqs[1].body.confirmation)
                = [ok |-> TRUE, variant |-> "Confirmed"]
    /\ (last.op = "decline" /\ last.reqs # <<>>) =>
          /\ last.reqs[1].body.confirmation = "denied"
          /\ DeserializeConfirmationResponse(last.reqs[1].body.confirmation)
                = [ok |-> TRUE, variant |-> "Denied"]
    /\ \A v \in {"Confirmed", "Denied"} :
          DeserializeConfirmationResponse(SerializeConfirmationResponse(v))
              = [ok |-> TRUE, variant |-> v]

C15_Witness ==
    /\ last.op = "decline"
    /\ last.reqs # <<>>
    /\ last.reqs[1].body = [confirmation |-> "denied", code |-> -1, details |-> <<>>]
    /\ confirmed

\* A URL text a request can be sent to: it parses and has a host.
Sendable(text) == ParseUrl(text).ok /\ ~ParseUrl(text).cannot_be_a_base

\* C16: no retry.  A call of poll, update_info, metadata, confirm or decline
\* issues one request when its URL is good and none otherwise, also when the
\* request is not delivered or answered with an error status; the requests a
\* ConfirmationRequest has issued are as many as the calls made on it with a
\* good URL; and a call that sent nothing, got no response or got a 4xx/5xx
\* status returns the error to its caller.
C16_NoRetry ==
    /\ Len(last.reqs) <= 1
    /\ last.op = "poll" => Len(last.reqs) = 1
    /\ last.op \in Decisions \cup {"update_info", "metadata"} =>
          (Len(last.reqs) = 1 <=> Sendable(Self.url))
    /\ \A i \in Insts : inst[i].state # "absent" =>
          /\ gets[i] = IF Sendable(inst[i].url) THEN fetches[i] ELSE 0
          /\ posts[i] = IF Sendable(inst[i].url) /\ inst[i].state = "consumed"
                        THEN 1 ELSE 0
    /\ last.op \in Decisions \cup {"update_info", "metadata", "poll"} =>
          /\ (\/ last.reqs = <<>>
              \/ ~last.resp.delivered
              \/ last.resp.status >= 400) =>
                 (last.result # Ok /\ last.value = NoValue)
          /\ last.reqs = <<>> =>
                 last.result.tag \in {"ParseUrlError", "ReqwestError"}
          /\ (last.reqs # <<>> /\ ~last.resp.delivered) =>
                 last.result = Err("ReqwestError", "send")
          /\ (last.reqs # <<>> /\ last.resp.delivered /\ last.resp.status >= 400) =>
                 last.result = Err("ReqwestError", "status")

\* A confirm whose one POST was answered with an error status, after an
\* update_info on the same request.
C16_Witness ==
    /\ last.op = "confirm"
    /\ last.resp.delivered
    /\ last.resp.status = 404
    /\ last.result = Err("ReqwestError", "status")
    /\ posts[last.inst] = 1
    /\ gets[last.inst] = 1

\* The pairs held by the chunks before chunk k.
RECURSIVE PairsBefore(_, _)
PairsBefore(chunks, k) ==
    IF k <= 1 THEN 0
    ELSE Len(chunks[k - 1].metadata) + PairsBefore(chunks, k - 1)

\* C17: ConfirmationInfo::metadata gives the pairs of all chunks of the
\* fetched reply in one list, chunk after chunk and, within a chunk, in the
\* order of the chunk: pair j of chunk k stands at the place after the pairs
\* of the chunks before k and the j-1 pairs before it, the list holds nothing
\* else, and the call issues no request.
C17_MetadataFlattened ==
    last.op = "info_metadata" =>
        LET chunks == last.args.info.reply.confirmation.chunks
            list   == last.value.list
        IN  /\ Len(list) = PairsBefore(chunks, Len(chunks) + 1)
            /\ \A k \in 1..Len(chunks) :
                  \A j \in 1..Len(chunks[k].metadata) :
                     list[PairsBefore(chunks, k) + j]
                        = <<chunks[k].metadata[j].key, chunks[k].metadata[j].value>>
            /\ last.reqs = <<>>
            /\ gets[last.inst] = fetches[last.inst]

C17_Witness ==
    /\ last.op = "info_metadata"
    /\ last.value.list = << <<"k1", "v1">>, <<"k2", "v2">>, <<"k3", "v3">> >>

\* C19: confirm and decline consume the ConfirmationRequest also when they
\* fail.  After a confirm or decline that returned a URL error, a network
\* error or a status error, the caller no longer owns the request: no
\* confirm, decline, update_info or metadata can be invoked on it.
C19_ConsumedOnFailure ==
    \A i \in Insts :
        (last.op \in Decisions /\ last.inst = i /\ last.result # Ok) =>
            /\ inst[i].state = "consumed"
            /\ ~Owned(i)
            /\ ~ENABLED Confirm(i)
            /\ ~ENABLED Decline(i)
            /\ ~ENABLED UpdateInfo(i)
            /\ ~ENABLED Metadata(i)

C19_Witness ==
    /\ last.op = "confirm"
    /\ last.result = Err("ReqwestError", "send")
    /\ Self.state = "consumed"
    /\ posts[last.inst] = 1

\* A URL text with a "/" added at the end of its path.
WithSlash(text) ==
    LET stop == FindFrom(text, 1, {"?", "#"})
    IN  SubSeq(text, 1, stop - 1) \o <<"/">> \o SubSeq(text, stop, Len(text))

\* C20 as stated: the derivation only appends and only strips the query.
\* Every segment of the confirmation URL, a trailing empty one included,
\* stands before the new segment "feedback"; update_info sends its GET to
\* the stored URL with its query; and a URL written without a last "/"
\* derives another feedback URL than the same URL with the "/".
C20_AppendOnly ==
    /\ (last.op \in Decisions /\ Sendable(Self.url)) =>
          /\ Len(last.reqs) = 1
          /\ LET u == ParseUrl(Self.url)
                 f == ParseUrl(last.reqs[1].url)
             IN  /\ f.scheme = u.scheme
                 /\ f.host = u.host
                 /\ f.segs = u.segs \o <<"feedback">>
                 /\ f.query = <<>>
          /\ ~EndsWithSlash(Self.url) =>
                ConfirmFeedbackUrl(WithSlash(Self.url)).url # last.reqs[1].url
    /\ (last.op = "update_info" /\ Sendable(Self.url)) =>
          /\ Len(last.reqs) = 1
          /\ ParseUrl(last.reqs[1].url) = ParseUrl(Self.url)

\* C20 amended: the derivation appends "feedback" after every segment of the
\* parsed path, a trailing empty one included, except when the parsed path
\* is just "/": then "feedback" takes the place of its one empty segment
\* (https://h/ gives https://h/feedback).  It strips the query; update_info
\* sends its GET to the stored URL as parsed, query kept.  A URL with and
\* without a last "/" derive different feedback URLs exactly when their
\* parsed paths differ, which they do not for a URL of scheme and host only.
C20_AppendExceptRoot ==
    /\ (last.op \in Decisions /\ Sendable(Self.url)) =>
          /\ Len(last.reqs) = 1
          /\ LET u == ParseUrl(Self.url)
                 f == ParseUrl(last.reqs[1].url)
                 v == ParseUrl(WithSlash(Self.url))
             IN  /\ f.scheme = u.scheme
                 /\ f.host = u.host
                 /\ f.segs = IF u.segs = <<"">> THEN <<"feedback">>
                             ELSE u.segs \o <<"feedback">>
                 /\ f.query = <<>>
                 /\ (ConfirmFeedbackUrl(WithSlash(Self.url)).url # last.reqs[1].url)
                       <=> (v.segs # u.segs)
                 /\ Self.url = https(<<"h">>) => v.segs = u.segs
    /\ (last.op = "update_info" /\ Sendable(Self.url)) =>
          /\ Len(last.reqs) = 1
          /\ ParseUrl(last.reqs[1].url) = ParseUrl(Self.url)

\* A confirm on https://h/?x=1, posted to https://h/feedback.
C20_Witness ==
    /\ last.op = "confirm"
    /\ Self.url = https(<<"h", "/", "?", "x=1">>)
    /\ last.reqs # <<>>
    /\ last.reqs[1].url = https(<<"h", "/", "feedback">>)

\* C18: two independent clients do not interfere.  In every interleaving a
\* step changes what belongs to one client only, no step changes a Client;
\* every request of a client and of its handles goes to its own base URL or
\* to the link its own controller was given, with its own Authorization
\* headers; and what a call returns is what the same call returns on that
\* client's handle and response alone.
C18_ClientsIndependent ==
    /\ [][peer' = peer \/ UNCHANGED varsA]_vars
    /\ [][client' = client /\ peer'.client = peer.client]_vars
    /\ [](/\ \A k \in 1..Len(last.reqs) :
                /\ AuthorizationHeaders(last.reqs[k].headers)
                      = AuthorizationHeaders(client.client.headers)
                /\ last.reqs[k].url \in {UrlToString(client.base_url), srvUrl,
                                         FeedbackOfExample}
          /\ \A k \in 1..Len(peer.last.reqs) :
                /\ AuthorizationHeaders(peer.last.reqs[k].headers)
                      = AuthorizationHeaders(peer.client.client.headers)
                /\ peer.last.reqs[k].url
                      \in {UrlToString(peer.client.base_url), PeerUrl,
                           PeerUrl \o <<"/", "feedback">>}
          /\ last.op = "poll" =>
                last = Call("poll", 0, 0, PollExchange(client, last.resp))
          /\ last.op = "confirm" =>
                last = Call("confirm", last.inst, last.prior,
                            ConfirmExchange(Self, last.resp))
          /\ last.op = "update_info" =>
                last = Call("update_info", last.inst, 0,
                            UpdateInfoExchange(Self, last.resp))
          /\ peer.last.op = "poll" =>
                peer.last = Call("poll", 0, 0,
                                 PollExchange(peer.client, peer.last.resp))
          /\ peer.last.op = "confirm" =>
                peer.last = Call("confirm", 1, 0,
                                 ConfirmExchange(peer.req, peer.last.resp))
          /\ peer.last.op = "update_info" =>
                peer.last = Call("update_info", 1, 0,
                                 UpdateInfoExchange(peer.req, peer.last.resp)))

\* Both callers have confirmed, each with its own token: the confirm of the
\* first was accepted and released its action, the confirm of the second was
\* answered with an error and its action still waits.
C18_Witness ==
    /\ last.op = "confirm"
    /\ last.result = Ok
    /\ srvAction = "deploy"
    /\ AuthorizationHeaders(last.reqs[1].headers)
          = <<[name |-> "authorization", value |-> <<"TargetToken", " ", "s">>]>>
    /\ peer.last.op = "confirm"
    /\ peer.last.result = Err("ReqwestError", "status")
    /\ peer.srvAction = "confirm"
    /\ AuthorizationHeaders(peer.last.reqs[1].headers)
          = <<[name |-> "authorization", value |-> <<"GatewayToken", " ", "s">>]>>

====
